---- MODULE Spec2Model ----
(***************************************************************************)
(* A model of src/services/geminiService.ts: generateDecadeImage, its      *)
(* retry loop callGeminiWithRetry, and the fallback cycle.                 *)
(*                                                                         *)
(* Strings are modelled as sequences of tokens; String.prototype.includes  *)
(* is containment of a contiguous token sequence.  The Arabic literals of  *)
(* the source are written as ASCII tokens (named after the constant they   *)
(* stand for).  One action is one run-to-completion step of the JavaScript *)
(* event loop: the code between two awaits.                                *)
(***************************************************************************)
EXTENDS Integers, Sequences, FiniteSets, TLC

VARIABLES
    pc,            \* "idle" | "call" (awaiting generateContent) | "sleep" (awaiting setTimeout) | "done"
    apiKey,        \* process.env.API_KEY ("" when unset)
    envChanges,    \* how many times the environment changed API_KEY
    imageDataUrl,  \* argument of generateDecadeImage
    prompt,        \* argument of generateDecadeImage
    imagePart,     \* the local imagePart of generateDecadeImage
    textPart,      \* the textPart argument of the running callGeminiWithRetry
    attempt,       \* the loop variable of callGeminiWithRetry
    cycles,        \* one record per call of callGeminiWithRetry (history)
    keyReads,      \* number of reads of process.env.API_KEY by getAi (history)
    inFallback,    \* control is inside the inner try of generateDecadeImage
    decade,        \* the local decade of generateDecadeImage (line 140)
    result,        \* outcome of generateDecadeImage
    active,        \* which invocation of generateDecadeImage the variables above belong to
    other          \* the same variables of the other invocation, suspended at an await

vars == <<pc, apiKey, envChanges, imageDataUrl, prompt, imagePart, textPart,
          attempt, cycles, keyReads, inFallback, decade, result, active, other>>

---------------------------------------------------------------------------
(* Bounds and program constants *)

MaxEnvChanges == 1

maxRetries == 3

initialDelay == 1000

Null == "<null>"

---------------------------------------------------------------------------
(* Strings *)

\* String.prototype.includes on token sequences
Includes(s, sub) ==
    \E i \in 0..(Len(s) - Len(sub)) : SubSeq(s, i + 1, i + Len(sub)) = sub

\* the literal "الذكاء الاصطناعي جاوب بنص ماشي بتصويرة" (lines 68 and 136)
NoImagePhrase == <<"AI-answered-with-text-not-image">>

\* the literal 'ما توصلنا بحتى شي نص.' (line 68)
NoTextPlaceholder == <<"no-text-received">>

\* the literal "الذكاء الاصطناعي مقدرش يصاوب التصويرة. التفاصيل: " (line 161)
WrapPrefix == <<"AI-could-not-make-image.details:">>

\* the literal "... لا بالطلب الأصلي لا بالبديل. آخر خطأ: " (line 156)
CompositePrefix == <<"AI-could-not-make-image-original-nor-fallback.last-error:">>

---------------------------------------------------------------------------
(* Errors and results *)

\* new Error(message); kind records which throw statement made it
MkError(kind, message) == [kind |-> kind, message |-> message]

NoError == MkError("none", <<>>)

\* line 13
ConfigError == MkError("config", <<"API_KEY environment variable is not set.">>)

\* line 120
InvalidInputError == MkError("input", <<"image-url-format-is-wrong">>)

Pending == [kind |-> "pending", value |-> <<>>, error |-> NoError]

Returned(value) == [kind |-> "ok", value |-> value, error |-> NoError]

Thrown(error) == [kind |-> "error", value |-> <<>>, error |-> error]

---------------------------------------------------------------------------
(* Request Builder: the data-URL pattern, decade extraction, fallback prompt *)

\* tokens made of \w characters only
WordTokens == {"png", "jpeg"}

\* a token holding a line terminator, which "." does not match
LineTerminator == "\n"

\* index of the last token of the \w+ run that starts at url[3], 0 if none
WordRunEnd(url) ==
    IF Len(url) < 3 \/ url[3] \notin WordTokens THEN 0
    ELSE CHOOSE k \in 3..Len(url) :
            /\ \A i \in 3..k : url[i] \in WordTokens
            /\ (k = Len(url) \/ url[k + 1] \notin WordTokens)

MatchUnanchored(url) ==
    \E s \in 0..Len(url) :
        LET u == SubSeq(url, s + 1, Len(url))
            k == WordRunEnd(u)
        IN  /\ Len(u) >= 4
            /\ u[1] = "data:"
            /\ u[2] = "image/"
            /\ k >= 3
            /\ Len(u) >= k + 1
            /\ u[k + 1] = ";base64,"
            /\ \A i \in (k + 2)..Len(u) : u[i] # LineTerminator

\* imageDataUrl.match(/^data:(image\/\w+);base64,(.*)$/) is not null
Match(url) ==
    LET k == WordRunEnd(url)
    IN  /\ Len(url) >= 4
        /\ url[1] = "data:"
        /\ url[2] = "image/"
        /\ k >= 3
        /\ Len(url) >= k + 1
        /\ url[k + 1] = ";base64,"
        /\ \A i \in (k + 2)..Len(url) : url[i] # LineTerminator

\* const [, mimeType, base64Data] = match
MatchMimeType(url) == SubSeq(url, 2, WordRunEnd(url))

MatchBase64DataFromSeparator(url) == SubSeq(url, WordRunEnd(url) + 1, Len(url))

MatchBase64Data(url) == SubSeq(url, WordRunEnd(url) + 2, Len(url))

MkImagePart(mimeType, data) == [mimeType |-> mimeType, data |-> data]

NoImagePart == MkImagePart(<<>>, <<>>)

\* decadeMap, in insertion order: <<key, value>>
decadeMap ==
    << <<"al-khamsinat",   "1950s">>,
       <<"as-sittinat",    "1960s">>,
       <<"as-sab3inat",    "1970s">>,
       <<"ath-thamaninat", "1980s">>,
       <<"at-tis3inat",    "1990s">>,
       <<"al-alfinat",     "2000s">> >>

\* indices of the keys of decadeMap that the prompt includes
DecadeHits(p) == {i \in 1..Len(decadeMap) : Includes(p, <<decadeMap[i][1]>>)}

FirstHit(p) == CHOOSE i \in DecadeHits(p) : \A j \in DecadeHits(p) : i <= j

extractDecadeAlways(p) ==
    IF DecadeHits(p) = {} THEN decadeMap[1][1] ELSE decadeMap[FirstHit(p)][1]

\* for (const key in decadeMap) if (prompt.includes(key)) return key; return null
extractDecade(p) ==
    IF DecadeHits(p) = {} THEN Null ELSE decadeMap[FirstHit(p)][1]

\* the template of line 27: text before ${decade}, decade, text after
getFallbackPrompt(decadeLabel) ==
    <<"make-a-photo-of-the-person-as-if-living-in", decadeLabel,
      "show-fashion-hair-and-mood-of-that-era">>

---------------------------------------------------------------------------
(* Response Interpreter *)

MkPart(hasInlineData, mimeType, data) ==
    [inlineData |-> hasInlineData, mimeType |-> mimeType, data |-> data]

MkResponse(parts, text) == [parts |-> parts, text |-> text]

NoResponse == MkResponse(<<>>, <<>>)

\* indices of response.candidates?.[0]?.content?.parts with inlineData
InlineParts(response) ==
    {i \in 1..Len(response.parts) : response.parts[i].inlineData}

HasImage(response) == InlineParts(response) # {}

FindImagePartLast(response) ==
    response.parts[CHOOSE i \in InlineParts(response) :
                       \A j \in InlineParts(response) : j <= i]

\* parts.find(part => part.inlineData): the first such part
FindImagePart(response) ==
    response.parts[CHOOSE i \in InlineParts(response) :
                       \A j \in InlineParts(response) : i <= j]

\* `data:${mimeType};base64,${data}`
DataUrl(mimeType, data) == <<"data:">> \o mimeType \o <<";base64,">> \o data

\* new Error(`<NoImagePhrase>: "${textResponse || '<NoTextPlaceholder>'}"`)
NoImageError(response) ==
    MkError("noimage",
            NoImagePhrase \o
            (IF response.text = <<>> THEN NoTextPlaceholder ELSE response.text))

processGeminiResponseLenient(response) ==
    IF HasImage(response)
    THEN Returned(DataUrl(FindImagePart(response).mimeType,
                          FindImagePart(response).data))
    ELSE Returned(response.text)

\* lines 58-69
processGeminiResponse(response) ==
    IF HasImage(response)
    THEN Returned(DataUrl(FindImagePart(response).mimeType,
                          FindImagePart(response).data))
    ELSE Thrown(NoImageError(response))

---------------------------------------------------------------------------
(* Resilient Invoker: classification and backoff *)

\* errorMessage.includes('"code":500') || errorMessage.includes('INTERNAL')
isInternalError(errorMessage) ==
    \/ Includes(errorMessage, <<"\"code\":500">>)
    \/ Includes(errorMessage, <<"INTERNAL">>)

ShouldRetryAny(errorMessage, att) == att < maxRetries

ShouldRetryOnLast(errorMessage, att) == isInternalError(errorMessage)

\* isInternalError && attempt < maxRetries
ShouldRetry(errorMessage, att) ==
    isInternalError(errorMessage) /\ att < maxRetries

DelayDoubled(att) == initialDelay * 2 ^ att

\* initialDelay * Math.pow(2, attempt - 1)
Delay(att) == initialDelay * 2 ^ (att - 1)

\* errorMessage.includes("<NoImagePhrase>")
isNoImageError(errorMessage) == Includes(errorMessage, NoImagePhrase)

\* new Error(`<WrapPrefix>${errorMessage}`), line 161
WrappedError(errorMessage) == MkError("wrapped", WrapPrefix \o errorMessage)

CompositeErrorBare(finalErrorMessage) == MkError("composite", CompositePrefix)

\* new Error(`<CompositePrefix>${finalErrorMessage}`), line 156
CompositeError(finalErrorMessage) ==
    MkError("composite", CompositePrefix \o finalErrorMessage)

---------------------------------------------------------------------------
(* Inputs and capability outcomes *)

ImageDataUrls ==
    { <<"data:", "image/", "png", ";base64,", "AAAA">>,
      <<"data:", "image/", "jpeg", ";base64,">>,
      <<"image/", "png", ";base64,", "AAAA">>,
      <<"x", "data:", "image/", "png", ";base64,", "AAAA">>,
      <<"data:", "image/", "png", "AAAA">>,
      <<"data:", "image/", "png", ";base64,", "AA", "\n", "BB">>,
      <<"data:", "text/", "plain", ";base64,", "AAAA">>,
      <<>> }

Prompts ==
    { <<"make-me-look-retro">>, <<>>,
      <<"at-tis3inat", "or", "as-sittinat">> }
    \cup { <<"style-of", decadeMap[i][1]>> : i \in 1..Len(decadeMap) }

\* messages of the errors the capability (ai.models.generateContent) may raise
FaultMessages ==
    { <<"got", "INTERNAL">>,
      <<"{", "\"code\":500", "}">>,
      <<"quota-exceeded">>,
      <<"INTERNAL">> \o NoImagePhrase,
      NoImagePhrase \o <<"blocked">> }

Faults == { MkError("capability", m) : m \in FaultMessages }

\* responses the capability may return
Responses ==
    { MkResponse(<< MkPart(TRUE, <<"image/", "png">>, <<"IMG1">>) >>, <<>>),
      MkResponse(<< MkPart(FALSE, <<>>, <<>>),
                    MkPart(TRUE, <<"image/", "jpeg">>, <<"IMG2">>),
                    MkPart(TRUE, <<"image/", "png">>, <<"IMG1">>) >>, <<"here">>),
      MkResponse(<<>>, <<>>),
      MkResponse(<< MkPart(FALSE, <<>>, <<>>) >>, <<"sorry", "INTERNAL">>) }

---------------------------------------------------------------------------
(* History records *)

ResponseEvent(response) ==
    [type |-> "response", response |-> response, error |-> NoError]

FaultEvent(error) ==
    [type |-> "fault", response |-> NoResponse, error |-> error]

\* one call of callGeminiWithRetry; apiKey is the value getAi reads (line 10)
NewCycle(text) ==
    [textPart |-> text, events |-> <<>>, delays |-> <<>>, requests |-> <<>>,
     thrown |-> NoError, apiKey |-> apiKey]

\* the payload of one generateContent call: contents.parts = [imagePart, textPart]
MkRequest(img, text, att) == [imagePart |-> img, textPart |-> text, attempt |-> att]

\* the part of the state the handlers below pass on
Ctx ==
    [cycles |-> cycles, keyReads |-> keyReads, inFallback |-> inFallback,
     decade |-> decade]

Last(cyc) == cyc[Len(cyc)]

WithEvent(ctx, ev) ==
    [ctx EXCEPT !.cycles[Len(ctx.cycles)].events = Append(@, ev)]

WithDelay(ctx, d) ==
    [ctx EXCEPT !.cycles[Len(ctx.cycles)].delays = Append(@, d)]

WithRequest(ctx, req) ==
    [ctx EXCEPT !.cycles[Len(ctx.cycles)].requests = Append(@, req)]

WithThrown(ctx, error) ==
    [ctx EXCEPT !.cycles[Len(ctx.cycles)].thrown = error]

WithCycle(ctx, text) == [ctx EXCEPT !.cycles = Append(@, NewCycle(text))]

WithKeyRead(ctx) == [ctx EXCEPT !.keyReads = @ + 1]

\* the variables of one invocation of generateDecadeImage: its arguments, its
\* locals and those of its callGeminiWithRetry, its position and its history
Locals ==
    [pc |-> pc, imageDataUrl |-> imageDataUrl, prompt |-> prompt,
     imagePart |-> imagePart, textPart |-> textPart, attempt |-> attempt,
     cycles |-> cycles, keyReads |-> keyReads, inFallback |-> inFallback,
     decade |-> decade, result |-> result]

\* an invocation that has not been called yet
IdleLocals ==
    [pc |-> "idle", imageDataUrl |-> <<>>, prompt |-> <<>>,
     imagePart |-> NoImagePart, textPart |-> <<>>, attempt |-> 0,
     cycles |-> <<>>, keyReads |-> 0, inFallback |-> FALSE,
     decade |-> Null, result |-> Pending]

---------------------------------------------------------------------------
(* generateDecadeImage and callGeminiWithRetry, between awaits *)

\* generateDecadeImage settles: return value or rejection
Finish(res, ctx) ==
    /\ pc' = "done"
    /\ result' = res
    /\ cycles' = ctx.cycles
    /\ keyReads' = ctx.keyReads
    /\ inFallback' = ctx.inFallback
    /\ decade' = ctx.decade
    /\ UNCHANGED <<textPart, attempt>>

\* ai.models.generateContent(...) is called and awaited
IssueCall(img, text, att, ctx) ==
    /\ pc' = "call"
    /\ attempt' = att
    /\ textPart' = text
    /\ cycles' = WithRequest(ctx, MkRequest(img, text, att)).cycles
    /\ keyReads' = ctx.keyReads
    /\ inFallback' = ctx.inFallback
    /\ decade' = ctx.decade
    /\ UNCHANGED result

getAiNeverThrows == FALSE

\* getAi(): !API_KEY
getAiThrows == apiKey = ""

FallbackCatchAgain(fallbackError, img, p, ctx) ==
    IF isNoImageError(fallbackError.message) /\ ~getAiThrows
    THEN IssueCall(img, getFallbackPrompt(extractDecade(p)), 1,
                   WithKeyRead(WithCycle(ctx, getFallbackPrompt(extractDecade(p)))))
    ELSE Finish(Thrown(CompositeError(fallbackError.message)), ctx)

\* catch (fallbackError), lines 153-157
FallbackCatch(fallbackError, img, p, ctx) ==
    Finish(Thrown(CompositeError(fallbackError.message)), ctx)

CallFallbackKeepAttempt(img, p, text, ctx) ==
    IF getAiThrows
    THEN FallbackCatch(ConfigError, img, p,
                       WithThrown(WithKeyRead(WithCycle(ctx, text)), ConfigError))
    ELSE IssueCall(img, text, attempt, WithKeyRead(WithCycle(ctx, text)))

\* callGeminiWithRetry(imagePart, fallbackTextPart) up to its first await,
\* inside the inner try (lines 147-152 and 78-90)
CallFallback(img, p, text, ctx) ==
    IF getAiThrows
    THEN FallbackCatch(ConfigError, img, p,
                       WithThrown(WithKeyRead(WithCycle(ctx, text)), ConfigError))
    ELSE IssueCall(img, text, 1, WithKeyRead(WithCycle(ctx, text)))

FirstCatchWrapping(error, img, p, ctx) ==
    IF isNoImageError(error.message) /\ extractDecade(p) # Null
    THEN CallFallback(img, p, getFallbackPrompt(extractDecade(p)),
                      [ctx EXCEPT !.decade = extractDecade(p),
                                  !.inFallback = TRUE])
    ELSE Finish(Thrown(WrappedError(error.message)), ctx)

\* catch (error), lines 134-162
FirstCatch(error, img, p, ctx) ==
    IF isNoImageError(error.message)
    THEN IF extractDecade(p) = Null
         THEN Finish(Thrown(error), [ctx EXCEPT !.decade = extractDecade(p)])
         ELSE CallFallback(img, p, getFallbackPrompt(extractDecade(p)),
                           [ctx EXCEPT !.decade = extractDecade(p),
                                       !.inFallback = TRUE])
    ELSE Finish(Thrown(WrappedError(error.message)), ctx)

\* callGeminiWithRetry(imagePart, textPart) up to its first await,
\* inside the outer try (lines 129-132 and 78-90)
CallFirst(img, p, text, ctx) ==
    IF getAiThrows
    THEN FirstCatch(ConfigError, img, p,
                    WithThrown(WithKeyRead(WithCycle(ctx, text)), ConfigError))
    ELSE IssueCall(img, text, 1, WithKeyRead(WithCycle(ctx, text)))

\* the catch clause that encloses the running callGeminiWithRetry
Catch(error, ctx) ==
    IF ctx.inFallback
    THEN FallbackCatch(error, imagePart, prompt, ctx)
    ELSE FirstCatch(error, imagePart, prompt, ctx)

\* callGeminiWithRetry rejects with error
Rethrow(error, ctx) == Catch(error, WithThrown(ctx, error))

---------------------------------------------------------------------------
(* Actions *)

Init ==
    /\ pc = "idle"
    /\ apiKey \in {"", "secret"}
    /\ envChanges = 0
    /\ imageDataUrl = <<>>
    /\ prompt = <<>>
    /\ imagePart = NoImagePart
    /\ textPart = <<>>
    /\ attempt = 0
    /\ cycles = <<>>
    /\ keyReads = 0
    /\ inFallback = FALSE
    /\ decade = Null
    /\ result = Pending
    /\ active = 1
    /\ other = IdleLocals

\* generateDecadeImage(url, p) is called: lines 117-132, up to the first await
StartFrom(urls, prompts) ==
    /\ pc = "idle"
    /\ \E url \in urls, p \in prompts :
        /\ imageDataUrl' = url
        /\ prompt' = p
        /\ IF ~Match(url)
           THEN /\ imagePart' = imagePart
                /\ Finish(Thrown(InvalidInputError), Ctx)
           ELSE /\ imagePart' = MkImagePart(MatchMimeType(url), MatchBase64Data(url))
                /\ CallFirst(imagePart', p, p, Ctx)
    /\ UNCHANGED <<apiKey, envChanges, active, other>>

Start == StartFrom(ImageDataUrls, Prompts)

\* the awaited generateContent resolves: lines 84, 133 / 152
CapabilityReturnsFrom(responses) ==
    /\ pc = "call"
    /\ \E response \in responses :
        LET ctx == WithEvent(Ctx, ResponseEvent(response))
            res == processGeminiResponse(response)
        IN  IF res.kind = "ok"
            THEN Finish(res, ctx)
            ELSE Catch(res.error, ctx)
    /\ UNCHANGED <<apiKey, envChanges, imageDataUrl, prompt, imagePart, active, other>>

CapabilityReturnsRetrying ==
    /\ pc = "call"
    /\ \E response \in Responses :
        LET ctx == WithEvent(Ctx, ResponseEvent(response))
            res == processGeminiResponse(response)
        IN  IF res.kind = "ok"
            THEN Finish(res, ctx)
            ELSE IF ShouldRetry(res.error.message, attempt)
            THEN /\ pc' = "sleep"
                 /\ cycles' = WithDelay(ctx, Delay(attempt)).cycles
                 /\ UNCHANGED <<textPart, attempt, keyReads, inFallback, decade, result>>
            ELSE Catch(res.error, ctx)
    /\ UNCHANGED <<apiKey, envChanges, imageDataUrl, prompt, imagePart, active, other>>

CapabilityReturns == CapabilityReturnsFrom(Responses)

\* the awaited generateContent rejects: lines 91-103
CapabilityThrowsFrom(faults) ==
    /\ pc = "call"
    /\ \E error \in faults :
        LET ctx == WithEvent(Ctx, FaultEvent(error))
        IN  IF ShouldRetry(error.message, attempt)
            THEN /\ pc' = "sleep"
                 /\ cycles' = WithDelay(ctx, Delay(attempt)).cycles
                 /\ UNCHANGED <<textPart, attempt, keyReads, inFallback, decade, result>>
            ELSE Rethrow(error, ctx)
    /\ UNCHANGED <<apiKey, envChanges, imageDataUrl, prompt, imagePart, active, other>>

CapabilityThrows == CapabilityThrowsFrom(Faults)

\* line 106
ExhaustedError == MkError("exhausted", <<"Gemini API call failed after all retries.">>)

TimerFiresShortLoop ==
    /\ pc = "sleep"
    /\ IF attempt + 1 < maxRetries
       THEN IssueCall(imagePart, textPart, attempt + 1, Ctx)
       ELSE Rethrow(ExhaustedError, Ctx)
    /\ UNCHANGED <<apiKey, envChanges, imageDataUrl, prompt, imagePart, active, other>>

\* the setTimeout of line 99 fires: continue, attempt++, loop test, next call
TimerFires ==
    /\ pc = "sleep"
    /\ IF attempt + 1 <= maxRetries
       THEN IssueCall(imagePart, textPart, attempt + 1, Ctx)
       ELSE Rethrow(ExhaustedError, Ctx)
    /\ UNCHANGED <<apiKey, envChanges, imageDataUrl, prompt, imagePart, active, other>>

\* other code of the process sets or deletes process.env.API_KEY while
\* generateDecadeImage is suspended at an await
EnvChange ==
    /\ pc \in {"call", "sleep"}
    /\ envChanges < MaxEnvChanges
    /\ envChanges' = envChanges + 1
    /\ apiKey' = IF apiKey = "" THEN "secret" ELSE ""
    /\ UNCHANGED <<pc, imageDataUrl, prompt, imagePart, textPart, attempt,
                   cycles, keyReads, inFallback, decade, result, active, other>>

Next == Start \/ CapabilityReturns \/ CapabilityThrows \/ TimerFires \/ EnvChange

Spec == Init /\ [][Next]_vars

\* every awaited generateContent settles and every setTimeout fires
FairSpec ==
    /\ Spec
    /\ WF_vars(CapabilityReturns \/ CapabilityThrows)
    /\ WF_vars(TimerFires)

---------------------------------------------------------------------------
(* Two invocations of generateDecadeImage on the one JavaScript thread *)

SwitchSharingAttempt ==
    /\ other' = Locals
    /\ active' = 3 - active
    /\ pc' = other.pc
    /\ imageDataUrl' = other.imageDataUrl
    /\ prompt' = other.prompt
    /\ imagePart' = other.imagePart
    /\ textPart' = other.textPart
    /\ attempt' = attempt
    /\ cycles' = other.cycles
    /\ keyReads' = other.keyReads
    /\ inFallback' = other.inFallback
    /\ decade' = other.decade
    /\ result' = other.result
    /\ UNCHANGED <<apiKey, envChanges>>

\* between two run-to-completion steps the event loop turns to the other
\* invocation: every invocation has its own arguments and locals (let/const
\* inside the functions), the module itself keeps no variable
Switch ==
    /\ other' = Locals
    /\ active' = 3 - active
    /\ pc' = other.pc
    /\ imageDataUrl' = other.imageDataUrl
    /\ prompt' = other.prompt
    /\ imagePart' = other.imagePart
    /\ textPart' = other.textPart
    /\ attempt' = other.attempt
    /\ cycles' = other.cycles
    /\ keyReads' = other.keyReads
    /\ inFallback' = other.inFallback
    /\ decade' = other.decade
    /\ result' = other.result
    /\ UNCHANGED <<apiKey, envChanges>>

\* arguments and capability outcomes of the two-invocation runs
ConcurrentUrls ==
    { <<"data:", "image/", "png", ";base64,", "AAAA">>,
      <<"data:", "image/", "jpeg", ";base64,">>,
      <<"data:", "image/", "png", "AAAA">> }

ConcurrentPrompts == { <<"make-me-look-retro">>, <<"style-of", "as-sab3inat">> }

ConcurrentFaults ==
    { MkError("capability", <<"got", "INTERNAL">>),
      MkError("capability", <<"quota-exceeded">>) }

ConcurrentResponses ==
    { MkResponse(<< MkPart(TRUE, <<"image/", "png">>, <<"IMG1">>) >>, <<>>),
      MkResponse(<< MkPart(TRUE, <<"image/", "jpeg">>, <<"IMG2">>) >>, <<>>),
      MkResponse(<<>>, <<"sorry">>) }

ConcurrentStart == StartFrom(ConcurrentUrls, ConcurrentPrompts)

ConcurrentReturns == CapabilityReturnsFrom(ConcurrentResponses)

ConcurrentThrows == CapabilityThrowsFrom(ConcurrentFaults)

ConcurrentNext ==
    \/ ConcurrentStart
    \/ ConcurrentReturns
    \/ ConcurrentThrows
    \/ TimerFires
    \/ EnvChange
    \/ Switch

ConcurrentSpec == Init /\ [][ConcurrentNext]_vars

---------------------------------------------------------------------------
(* Vocabulary of the properties *)

Done == pc = "done"

RECURSIVE SumRequests(_)
SumRequests(cyc) ==
    IF cyc = <<>> THEN 0 ELSE Len(Head(cyc).requests) + SumRequests(Tail(cyc))

\* capability calls made so far by the whole operation
TotalCalls == SumRequests(cycles)

\* the message carries '"code":500' or 'INTERNAL'
HasRetriableMarker(m) ==
    \E i \in 1..Len(m) : m[i] \in {"\"code\":500", "INTERNAL"}

RetriableFaultEvent(ev) == ev.type = "fault" /\ HasRetriableMarker(ev.error.message)

TerminalFaultEvent(ev) == ev.type = "fault" /\ ~HasRetriableMarker(ev.error.message)

ImageEvent(ev) ==
    ev.type = "response" /\ \E i \in 1..Len(ev.response.parts) : ev.response.parts[i].inlineData

NoImageEvent(ev) ==
    ev.type = "response" /\ \A i \in 1..Len(ev.response.parts) : ~ev.response.parts[i].inlineData

\* the first image content of a response, as data:<mimeType>;base64,<data>
ImageOf(response) ==
    LET i == CHOOSE i \in 1..Len(response.parts) :
                 /\ response.parts[i].inlineData
                 /\ \A j \in 1..(i - 1) : ~response.parts[j].inlineData
    IN  <<"data:">> \o response.parts[i].mimeType \o <<";base64,">> \o response.parts[i].data

\* the content-rejection message made from a response without image
RejectionMessage(response) ==
    NoImagePhrase \o (IF response.text = <<>> THEN NoTextPlaceholder ELSE response.text)

\* the prompt contains none of the six markers
NoMarker(p) == \A i \in 1..Len(decadeMap) : \A j \in 1..Len(p) : p[j] # decadeMap[i][1]

\* the canonical label of the first marker, in map order, that the prompt contains
LabelOf(p) ==
    decadeMap[CHOOSE i \in 1..Len(decadeMap) :
                 /\ \E j \in 1..Len(p) : p[j] = decadeMap[i][1]
                 /\ \A k \in 1..(i - 1) : \A j \in 1..Len(p) : p[j] # decadeMap[k][1]][2]

\* the first cycle ended with a response that holds no image
FirstCycleNoImage ==
    /\ Len(cycles) >= 1
    /\ cycles[1].events # <<>>
    /\ NoImageEvent(Last(cycles[1].events))

\* the i-th cycle saw retriable faults on attempts 1 and 2 and an image on attempt 3
TwoFaultsThenImage(c) ==
    /\ Len(c.events) = 3
    /\ RetriableFaultEvent(c.events[1])
    /\ RetriableFaultEvent(c.events[2])
    /\ ImageEvent(c.events[3])

---------------------------------------------------------------------------
(* Properties *)

\* C1: when a cycle sees retriable faults on attempts 1 and 2 and image content
\* on attempt 3, generateDecadeImage has returned that image, the cycle called
\* the capability exactly 3 times (attempts 1, 2, 3), and the delays between
\* its attempts were 1000 then 2000, in that order.
C1_RetryTwiceThenImage ==
    \A i \in 1..Len(cycles) :
        TwoFaultsThenImage(cycles[i]) =>
            /\ Done
            /\ i = Len(cycles)
            /\ result = Returned(ImageOf(cycles[i].events[3].response))
            /\ Len(cycles[i].requests) = 3
            /\ \A k \in 1..3 : cycles[i].requests[k].attempt = k
            /\ cycles[i].delays = <<1000, 2000>>

C1_Witness ==
    /\ Done
    /\ Len(cycles) = 1
    /\ TwoFaultsThenImage(cycles[1])
    /\ result.kind = "ok"

\* C2 (as claimed): when the first cycle sees retriable faults on all 3
\* attempts, the operation has failed with an error carrying the message of
\* the fault of attempt 3, the capability was called exactly 3 times, and no
\* fallback cycle was started.
C2_ExhaustedFailsWithLastFault ==
    ( /\ Len(cycles) >= 1
      /\ Len(cycles[1].events) = 3
      /\ \A k \in 1..3 : RetriableFaultEvent(cycles[1].events[k]) )
    => /\ Done
       /\ result.kind = "error"
       /\ Includes(result.error.message, cycles[1].events[3].error.message)
       /\ TotalCalls = 3
       /\ Len(cycles) = 1

\* C3: a capability failure without retriable marker on attempt k of a cycle is
\* the last event of that cycle: callGeminiWithRetry rejects with that very
\* error, the cycle made exactly k calls, and no delay followed the failure
\* (the k-1 delays of the cycle all precede it).
C3_TerminalFaultNotRetried ==
    \A i \in 1..Len(cycles) : \A k \in 1..Len(cycles[i].events) :
        TerminalFaultEvent(cycles[i].events[k]) =>
            /\ k = Len(cycles[i].events)
            /\ cycles[i].thrown = cycles[i].events[k].error
            /\ Len(cycles[i].requests) = k
            /\ Len(cycles[i].delays) = k - 1
            /\ pc # "sleep" \/ i < Len(cycles)

C3_Witness ==
    /\ Done
    /\ Len(cycles) = 1
    /\ Len(cycles[1].events) = 2
    /\ RetriableFaultEvent(cycles[1].events[1])
    /\ TerminalFaultEvent(cycles[1].events[2])
    /\ cycles[1].delays = <<1000>>

\* C4: when the first attempt of the first cycle returns image content,
\* generateDecadeImage has returned data:<mimeType>;base64,<data> of that
\* content, the capability was called exactly once in the whole operation,
\* there was no delay and no fallback cycle.
C4_ImageOnFirstAttempt ==
    ( /\ Len(cycles) >= 1
      /\ cycles[1].events # <<>>
      /\ ImageEvent(cycles[1].events[1]) )
    => /\ Done
       /\ result = Returned(ImageOf(cycles[1].events[1].response))
       /\ TotalCalls = 1
       /\ Len(cycles) = 1
       /\ cycles[1].delays = <<>>

C4_Witness ==
    /\ Done
    /\ Len(cycles) = 1
    /\ Len(cycles[1].events) = 1
    /\ ImageEvent(cycles[1].events[1])
    /\ Len(cycles[1].events[1].response.parts) > 1
    /\ result.kind = "ok"

\* C5 (as claimed): when the first cycle returns no image and the prompt holds
\* no decade marker, the operation has failed with the original
\* content-rejection error, no second cycle ran, and the capability was called
\* exactly once.
C5_NoMarkerCalledOnce ==
    (FirstCycleNoImage /\ NoMarker(prompt))
    => /\ Done
       /\ result = Thrown(MkError("noimage",
                     RejectionMessage(Last(cycles[1].events).response)))
       /\ Len(cycles) = 1
       /\ TotalCalls = 1

\* C5 (amended): when the first cycle returns no image and the prompt holds no
\* decade marker, the operation has failed with the original content-rejection
\* error (not wrapped), no second cycle ran, and the capability was called once
\* per attempt of the first cycle: once for the response and once for each
\* retriable fault before it, at most 3 times.
C5_NoMarkerNoFallback ==
    (FirstCycleNoImage /\ NoMarker(prompt))
    => /\ Done
       /\ result = Thrown(MkError("noimage",
                     RejectionMessage(Last(cycles[1].events).response)))
       /\ Len(cycles) = 1
       /\ TotalCalls = Len(cycles[1].events)
       /\ TotalCalls <= 3
       /\ \A k \in 1..(Len(cycles[1].events) - 1) :
              RetriableFaultEvent(cycles[1].events[k])

C5_Witness ==
    /\ Done
    /\ FirstCycleNoImage
    /\ NoMarker(prompt)
    /\ TotalCalls = 3

\* C6 (as claimed): when the first cycle returns no image and the prompt holds
\* a decade marker, the second cycle's instruction is the fallback template
\* filled with the canonical label the marker maps to ("1970s" for the third
\* marker), and an image returned by that cycle is the final result.
C6_FallbackUsesCanonicalLabel ==
    (FirstCycleNoImage /\ ~NoMarker(prompt) /\ Len(cycles) >= 2)
    => /\ cycles[2].textPart = getFallbackPrompt(LabelOf(prompt))
       /\ \A k \in 1..Len(cycles[2].requests) :
              cycles[2].requests[k].textPart = getFallbackPrompt(LabelOf(prompt))
       /\ (cycles[2].events # <<>> /\ ImageEvent(Last(cycles[2].events)))
              => result = Returned(ImageOf(Last(cycles[2].events).response))

\* the fallback cycle has ended: with a response without image, or with an error
FallbackFailed ==
    /\ Len(cycles) >= 2
    /\ \/ cycles[2].events # <<>> /\ NoImageEvent(Last(cycles[2].events))
       \/ cycles[2].thrown.kind # "none"

\* the message of the fallback cycle's failure
FallbackFailureMessage ==
    IF cycles[2].thrown.kind # "none"
    THEN cycles[2].thrown.message
    ELSE RejectionMessage(Last(cycles[2].events).response)

\* C7: when the first cycle returns no image, a decade marker is found and the
\* fallback cycle returns no image or raises any error, the operation has
\* failed with the composite error, whose message contains the message of the
\* fallback cycle's failure, and no further cycle was started.
C7_CompositeOnFallbackFailure ==
    (FirstCycleNoImage /\ FallbackFailed)
    => /\ Done
       /\ result.kind = "error"
       /\ result.error.kind = "composite"
       /\ Includes(result.error.message, FallbackFailureMessage)
       /\ Len(result.error.message) > Len(FallbackFailureMessage)
       /\ Len(cycles) = 2

C7_Witness ==
    /\ Done
    /\ FirstCycleNoImage
    /\ Len(cycles) = 2
    /\ cycles[2].thrown = ConfigError
    /\ result.error.kind = "composite"

\* C8 (as claimed): whenever the first cycle ends with an error raised by the
\* capability, whatever its message, no second cycle runs and the operation
\* has failed with that error's message wrapped in the descriptive message.
C8_NoFallbackForCapabilityErrors ==
    (Len(cycles) >= 1 /\ cycles[1].thrown.kind = "capability")
    => /\ Len(cycles) = 1
       /\ Done
       /\ result = Thrown(MkError("wrapped", WrapPrefix \o cycles[1].thrown.message))

\* C9: the fallback cycle runs at most once: there are never more than two
\* cycles, and once the second has ended the operation is over.
C9_FallbackAtMostOnce ==
    /\ Len(cycles) <= 2
    /\ (Len(cycles) = 2 /\ pc \in {"call", "sleep"}) => inFallback
    /\ ( /\ Len(cycles) = 2
         /\ \/ cycles[2].thrown.kind # "none"
            \/ cycles[2].events # <<>> /\ Last(cycles[2].events).type = "response" )
       => Done

C9_Witness ==
    /\ Done
    /\ Len(cycles) = 2
    /\ cycles[2].events # <<>>
    /\ NoImageEvent(Last(cycles[2].events))

\* the input lacks the data: prefix
MissingPrefix(url) == url = <<>> \/ url[1] # "data:"

\* the input lacks the ;base64, separator
MissingSeparator(url) == \A i \in 1..Len(url) : url[i] # ";base64,"

\* C10: for an input without data: prefix or without base64 separator,
\* generateDecadeImage has failed with the invalid-input error, no capability
\* call was made, no cycle was started and the credential was never read,
\* whether or not the credential is set.
C10_MalformedInputFailsFirst ==
    (pc # "idle" /\ (MissingPrefix(imageDataUrl) \/ MissingSeparator(imageDataUrl)))
    => /\ Done
       /\ result = Thrown(InvalidInputError)
       /\ TotalCalls = 0
       /\ cycles = <<>>
       /\ keyReads = 0

C10_Witness ==
    /\ Done
    /\ imageDataUrl # <<>>
    /\ MissingPrefix(imageDataUrl)
    /\ ~MissingSeparator(imageDataUrl)
    /\ apiKey = ""
    /\ result = Thrown(InvalidInputError)

\* the first cycle ended with an error that the catch clause takes for a
\* content rejection, so extractDecade(prompt) was evaluated (line 140)
DecadeExtracted ==
    /\ Len(cycles) >= 1
    /\ \/ FirstCycleNoImage
       \/ \E j \in 1..Len(cycles[1].thrown.message) :
              <<cycles[1].thrown.message[j]>> = NoImagePhrase

\* C11 (as claimed): for a prompt that contains a known marker, extractDecade
\* returns the canonical label (1950s..2000s) of the first marker in map order;
\* for a prompt with none of the six markers it returns null.
C11_ExtractDecadeReturnsLabel ==
    DecadeExtracted =>
        decade = (IF NoMarker(prompt) THEN Null ELSE LabelOf(prompt))

\* the message of the first cycle's content rejection
OriginalRejectionMessage == RejectionMessage(Last(cycles[1].events).response)

\* C12 (as claimed): when a content rejection escalates (no marker in the
\* prompt, or the fallback cycle failed too), the operation has failed with a
\* composite error whose message contains the original rejection message and,
\* when the fallback was attempted, the fallback failure message too.
C12_CompositeNamesBothMessages ==
    (FirstCycleNoImage /\ (NoMarker(prompt) \/ FallbackFailed))
    => /\ Done
       /\ result.kind = "error"
       /\ result.error.kind = "composite"
       /\ Includes(result.error.message, OriginalRejectionMessage)
       /\ Len(cycles) >= 2 => Includes(result.error.message, FallbackFailureMessage)

\* C12 (amended): an escalated content rejection ends with an error that
\* carries one failure message.  Without marker in the prompt it is the
\* original content-rejection error itself, re-raised; after a failed fallback
\* it is the composite error whose message is the fixed text followed by the
\* fallback failure's message, and nothing of the first cycle's message.
C12_EscalationNamesLastFailure ==
    /\ (FirstCycleNoImage /\ NoMarker(prompt))
       => /\ Done
          /\ result = Thrown(MkError("noimage", OriginalRejectionMessage))
    /\ (FirstCycleNoImage /\ FallbackFailed)
       => /\ Done
          /\ result = Thrown(MkError("composite",
                                     CompositePrefix \o FallbackFailureMessage))

C12_Witness ==
    /\ Done
    /\ FirstCycleNoImage
    /\ FallbackFailed
    /\ cycles[2].thrown.kind = "none"
    /\ FallbackFailureMessage # OriginalRejectionMessage
    /\ ~Includes(result.error.message, OriginalRejectionMessage)

\* C13: when getAi finds the credential absent in the first cycle of an
\* operation whose input is well-formed, the operation has failed with an
\* error carrying the configuration error's message, without any capability
\* call, without delay and without fallback cycle; and before
\* generateDecadeImage is called (module load) the credential is not read and
\* nothing fails, set or not.
C13_MissingCredentialFailsWithoutCall ==
    /\ pc = "idle" => (keyReads = 0 /\ result = Pending)
    /\ (Len(cycles) >= 1 /\ cycles[1].apiKey = "" /\ Match(imageDataUrl))
       => /\ Done
          /\ result.kind = "error"
          /\ Includes(result.error.message, ConfigError.message)
          /\ cycles[1].thrown = ConfigError
          /\ TotalCalls = 0
          /\ cycles[1].delays = <<>>
          /\ Len(cycles) = 1
          /\ ~inFallback
          /\ keyReads = 1

C13_Witness ==
    /\ Done
    /\ Len(cycles) = 1
    /\ cycles[1].apiKey = ""
    /\ Match(imageDataUrl)
    /\ result.error.kind = "wrapped"

\* the delays of a cycle that has slept n times
ExpectedDelays(n) == [k \in 1..n |-> 1000 * 2 ^ (k - 1)]

\* the failure that ended the last cycle of invocation l
LastFailure(l) ==
    IF Last(l.cycles).thrown.kind # "none"
    THEN Last(l.cycles).thrown
    ELSE MkError("noimage", RejectionMessage(Last(Last(l.cycles).events).response))

\* the outcome of invocation l, from its own arguments and the outcomes of its
\* own capability calls and credential reads
ExpectedOutcome(l) ==
    IF l.cycles = <<>> THEN Thrown(InvalidInputError)
    ELSE IF /\ Last(l.cycles).thrown.kind = "none"
            /\ ImageEvent(Last(Last(l.cycles).events))
    THEN Returned(ImageOf(Last(Last(l.cycles).events).response))
    ELSE IF Len(l.cycles) = 2
    THEN Thrown(MkError("composite", CompositePrefix \o LastFailure(l).message))
    ELSE IF \E j \in 1..Len(LastFailure(l).message) :
                <<LastFailure(l).message[j]>> = NoImagePhrase
    THEN Thrown(LastFailure(l))
    ELSE Thrown(MkError("wrapped", WrapPrefix \o LastFailure(l).message))

\* attempt counter, delays, current cycle and outcome of invocation l are what
\* its own arguments and its own events make them
OwnHistoryDecides(l) ==
    /\ l.pc = "idle" => l = IdleLocals
    /\ l.pc # "done" => l.result = Pending
    /\ l.pc = "done" => l.result = ExpectedOutcome(l)
    /\ l.pc \in {"call", "sleep"} =>
          /\ Len(l.cycles) = (IF l.inFallback THEN 2 ELSE 1)
          /\ l.attempt = Len(Last(l.cycles).requests)
          /\ l.textPart = Last(l.cycles).textPart
          /\ Len(Last(l.cycles).events) =
                 (IF l.pc = "call" THEN l.attempt - 1 ELSE l.attempt)
    /\ \A i \in 1..Len(l.cycles) :
          /\ l.cycles[i].textPart =
                 (IF i = 1 THEN l.prompt ELSE getFallbackPrompt(l.decade))
          /\ \A k \in 1..Len(l.cycles[i].requests) :
                 l.cycles[i].requests[k] =
                     [imagePart |-> l.imagePart,
                      textPart |-> l.cycles[i].textPart, attempt |-> k]
          /\ Len(l.cycles[i].requests) <= Len(l.cycles[i].events) + 1
          /\ l.cycles[i].delays =
                 ExpectedDelays(Cardinality(
                     {k \in 1..Len(l.cycles[i].events) :
                         k < 3 /\ RetriableFaultEvent(l.cycles[i].events[k])}))

\* C14: with two invocations interleaved at their awaits, each one's attempt
\* counter, delays, current cycle and final outcome are decided by its own
\* arguments and the outcomes of its own calls, and a step of one invocation
\* leaves the other's variables alone.
C14_InvocationsIndependent ==
    /\ [](OwnHistoryDecides(Locals) /\ OwnHistoryDecides(other))
    /\ [][active' = active => other' = other]_vars

C14_Witness ==
    /\ pc = "done"
    /\ other.pc = "done"
    /\ Len(cycles) = 2
    /\ Len(other.cycles) = 1
    /\ other.cycles[1].delays = <<1000, 2000>>
    /\ cycles[2].delays = <<1000>>
    /\ imagePart # other.imagePart
    /\ result.kind = "ok"
    /\ other.result.kind = "error"

\* capability calls of cycle c that have neither returned nor failed yet
InFlight(c) == Len(c.requests) - Len(c.events)

\* C15: within one invocation the retry loop is sequential.  At most one
\* capability call is in flight, and only while the invocation awaits it;
\* attempt k+1 of a cycle exists only if attempt k failed with a retriable
\* fault and was followed by a delay of 1000*2^(k-1); a delay follows only a
\* retriable failure of attempt 1 or 2 (never a response, a terminal failure
\* or attempt 3); and a further call in a cycle is made only by the step in
\* which the pending delay elapses.
C15_RetryLoopSequential ==
    /\ [](\A i \in 1..Len(cycles) :
            /\ InFlight(cycles[i]) \in {0, 1}
            /\ InFlight(cycles[i]) = 1 <=> (i = Len(cycles) /\ pc = "call")
            /\ \A k \in 1..(Len(cycles[i].requests) - 1) :
                   /\ RetriableFaultEvent(cycles[i].events[k])
                   /\ Len(cycles[i].delays) >= k
                   /\ cycles[i].delays[k] = 1000 * 2 ^ (k - 1)
            /\ \A k \in 1..Len(cycles[i].delays) :
                   /\ k < 3
                   /\ Len(cycles[i].events) >= k
                   /\ RetriableFaultEvent(cycles[i].events[k])
            /\ (cycles[i].requests # <<>>
                  /\ Len(cycles[i].delays) = Len(cycles[i].requests))
                   <=> (i = Len(cycles) /\ pc = "sleep"))
    /\ [][(Len(cycles') = Len(cycles) /\ TotalCalls' > TotalCalls)
            => (pc = "sleep" /\ pc' = "call" /\ TotalCalls' = TotalCalls + 1)]_vars

C15_Witness ==
    /\ Done
    /\ Len(cycles) = 1
    /\ cycles[1].delays = <<1000, 2000>>
    /\ Len(cycles[1].events) = 3
    /\ RetriableFaultEvent(cycles[1].events[3])

\* C16: the throw after the loop of callGeminiWithRetry (line 106) is never
\* executed: no cycle ends with its error and no operation fails with it;
\* a cycle that ends with an error ends with the error its last call raised,
\* or with the configuration error before any call.
C16_PostLoopThrowUnreachable ==
    /\ result.error.kind # "exhausted"
    /\ ~Includes(result.error.message, ExhaustedError.message)
    /\ \A i \in 1..Len(cycles) :
          /\ cycles[i].thrown.kind # "exhausted"
          /\ cycles[i].thrown.kind # "none" =>
                \/ cycles[i].thrown = ConfigError /\ cycles[i].requests = <<>>
                \/ /\ cycles[i].events # <<>>
                   /\ cycles[i].thrown = Last(cycles[i].events).error
          /\ (pc = "sleep" /\ i = Len(cycles)) => attempt + 1 <= maxRetries

C16_Witness ==
    /\ Done
    /\ Len(cycles) = 2
    /\ Len(cycles[2].events) = 3
    /\ \A k \in 1..3 : RetriableFaultEvent(cycles[2].events[k])
    /\ cycles[2].thrown = cycles[2].events[3].error

\* v has the form data:<mimeType>;base64,<data>
IsDataUrl(v) ==
    /\ Len(v) >= 3
    /\ v[1] = "data:"
    /\ \E i \in 3..Len(v) : v[i] = ";base64,"

\* the operation returned an image data URL
Succeeded == result.kind = "ok" /\ IsDataUrl(result.value) /\ result.error = NoError

\* the operation raised: invalid input, a terminal fault or exhausted retries
\* (the last capability call failed), a content rejection, or the composite
\* fallback error
FailedAsListed ==
    /\ result.kind = "error"
    /\ result.value = <<>>
    /\ \/ result.error = InvalidInputError /\ cycles = <<>>
       \/ /\ cycles # <<>>
          /\ Last(cycles).events # <<>>
          /\ Last(Last(cycles).events).type = "fault"
          /\ Includes(result.error.message, Last(Last(cycles).events).error.message)
       \/ result.error.kind = "noimage"
       \/ result.error.kind = "composite"

\* the operation raised the configuration error of its first cycle, wrapped
FailedForCredential ==
    /\ result.kind = "error"
    /\ result.value = <<>>
    /\ Len(cycles) = 1
    /\ cycles[1].thrown = ConfigError
    /\ result.error.kind = "wrapped"
    /\ Includes(result.error.message, ConfigError.message)

\* C17 (as claimed): a terminated operation has either returned an image data
\* URL or raised one of: invalid input, terminal fault, exhausted retries,
\* content rejection, composite fallback error.
C17_EndsInListedOutcome == Done => (Succeeded \/ FailedAsListed)

\* C17 (amended): if every capability call settles and every timer fires, an
\* operation that was called terminates; it has no result before it
\* terminates, and then exactly one: an image data URL, or a raised error that
\* is one of the listed ones or the configuration error; the result never
\* changes afterwards.
C17_TerminatesWithOneOutcome ==
    /\ (pc # "idle") ~> Done
    /\ [](~Done => result = Pending)
    /\ [](Done => /\ Succeeded \/ FailedAsListed \/ FailedForCredential
                  /\ ~(Succeeded /\ result.kind = "error"))
    /\ [][Done => (Done' /\ result' = result)]_vars

C17_Witness ==
    /\ Done
    /\ FailedForCredential
    /\ ~FailedAsListed

\* position of the first ;base64, of the input
SeparatorAt(url) ==
    CHOOSE i \in 1..Len(url) :
        url[i] = ";base64," /\ \A j \in 1..(i - 1) : url[j] # ";base64,"

\* media type and data of the input data:<mediaType>;base64,<data>
InputPayload(url) ==
    [mimeType |-> SubSeq(url, 2, SeparatorAt(url) - 1),
     data |-> SubSeq(url, SeparatorAt(url) + 1, Len(url))]

\* C18: every capability call of an invocation carries the media type and data
\* decoded from the input, in the first and in the fallback cycle; every call
\* of the first cycle carries the prompt, every call of the fallback cycle the
\* fallback instruction: the instruction changes only between the cycles.
C18_SamePayloadEveryCall ==
    \A i \in 1..Len(cycles) : \A k \in 1..Len(cycles[i].requests) :
        /\ cycles[i].requests[k].imagePart = InputPayload(imageDataUrl)
        /\ cycles[i].requests[k].textPart = cycles[i].requests[1].textPart
        /\ i = 1 => cycles[i].requests[k].textPart = prompt
        /\ i = 2 => cycles[i].requests[k].textPart = getFallbackPrompt(decade)

C18_Witness ==
    /\ Done
    /\ Len(cycles) = 2
    /\ Len(cycles[1].requests) = 3
    /\ Len(cycles[2].requests) = 2
    /\ imagePart.data # <<>>

\* C19: once the loop runs the attempt counter is in 1..3; a cycle makes at
\* most 3 capability calls and the operation at most 6; the fallback cycle
\* starts at attempt 1 and its first delay is 1000, however many attempts the
\* first cycle took.
C19_AttemptBounds ==
    /\ (pc \in {"call", "sleep"} \/ TotalCalls > 0) => attempt \in 1..3
    /\ \A i \in 1..Len(cycles) :
          /\ Len(cycles[i].requests) <= 3
          /\ \A k \in 1..Len(cycles[i].requests) : cycles[i].requests[k].attempt = k
    /\ TotalCalls <= 6
    /\ Len(cycles) = 2 =>
          /\ cycles[2].requests # <<>> => cycles[2].requests[1].attempt = 1
          /\ cycles[2].delays # <<>> => cycles[2].delays[1] = 1000
          /\ (pc = "call" /\ Len(cycles[2].requests) = 1) => attempt = 1

C19_Witness ==
    /\ Done
    /\ TotalCalls = 6
    /\ Len(cycles[1].requests) = 3
    /\ cycles[2].delays = <<1000, 2000>>

\* C20: a response of the capability is the last event of its cycle, with or
\* without image and whatever its text: no delay and no further call with the
\* same instruction follow it.  Without image it leads to the fallback
\* decision only: in the first cycle to the fallback cycle (marker in the
\* prompt) or to the rejection error (no marker), in the fallback cycle to the
\* composite error.
C20_ResponseEndsCycle ==
    \A i \in 1..Len(cycles) : \A k \in 1..Len(cycles[i].events) :
        cycles[i].events[k].type = "response" =>
            /\ k = Len(cycles[i].events)
            /\ Len(cycles[i].requests) = k
            /\ Len(cycles[i].delays) = k - 1
            /\ cycles[i].thrown.kind = "none"
            /\ i = Len(cycles) => Done
            /\ i < Len(cycles) =>
                  /\ i = 1
                  /\ NoImageEvent(cycles[i].events[k])
                  /\ ~NoMarker(prompt)
                  /\ cycles[2].textPart # cycles[1].textPart
            /\ (NoImageEvent(cycles[i].events[k]) /\ i = 1 /\ NoMarker(prompt)) =>
                  (Len(cycles) = 1 /\ result.error.kind = "noimage")
            /\ (NoImageEvent(cycles[i].events[k]) /\ i = 1 /\ ~NoMarker(prompt)) =>
                  Len(cycles) = 2
            /\ (NoImageEvent(cycles[i].events[k]) /\ i = 2) =>
                  result.error.kind = "composite"

C20_Witness ==
    /\ Done
    /\ Len(cycles) = 1
    /\ Len(cycles[1].events) = 2
    /\ RetriableFaultEvent(cycles[1].events[1])
    /\ NoImageEvent(cycles[1].events[2])
    /\ HasRetriableMarker(cycles[1].events[2].response.text)
    /\ cycles[1].delays = <<1000>>

====
